---- MODULE Spec2Model ----
(***************************************************************************)
(* The tree table view (AntDComponentTreeTable) and the message node       *)
(* (MessageNode) of the SVD viewer.                                        *)
(*                                                                         *)
(* The view is a React function component.  Its state is the props it was  *)
(* last rendered with, its state hooks (dataSource, columns, size), the    *)
(* passive effects still pending after the last commit, and what the last  *)
(* render handed to the host (the placeholder or the Table element with    *)
(* its rows, icons and click closures).  Arrays are JavaScript objects:    *)
(* they live in a heap of slots, so that two references to one array and   *)
(* an in-place change of it are visible.                                   *)
(***************************************************************************)
EXTENDS Integers, Sequences, FiniteSets, TLC

\* ------------------------------------------------------------------ bounds
\* Longest row list the consumer supplies.
MaxLen == 2
\* Most ranges the caller's accumulator holds before collectRanges is called.
MaxRanges == 2

\* ------------------------------------------------------------- input data
\* The rows (CDTTreeItem) the consumer draws its row lists from, by id.
RowIds == {"a", "b", "c"}

\* record.pinned: true, false or undefined.
Pinned(r) == CASE r = "a" -> "true" [] r = "b" -> "false" [] OTHER -> "undefined"

\* record.children is present (the Table hands expandable = true to expandIcon).
HasChildren(r) == r = "a"

\* A CommandDefinition with the value attached to it.
Command(id) == [commandId |-> id, icon |-> IF id = "read" THEN "refresh" ELSE "edit",
                value |-> IF id = "read" THEN "v-read" ELSE "v-write"]

\* record.columns[field] for an action column: its commands (none when the
\* row has no cell data for the field, column?.commands being undefined).
CellCommands(r) == CASE r = "a" -> <<Command("read"), Command("write")>>
                     [] r = "b" -> <<Command("read")>>
                     [] OTHER -> <<>>

\* The row lists: sequences of distinct rows (row keys are unique).
RowLists == {<<>>} \cup {s \in UNION {[1..n -> RowIds] : n \in 1..MaxLen} :
                           \A i, j \in 1..Len(s) : i # j => s[i] # s[j]}

\* An optional array of keys: absent (undefined) or a list.
Absent == [def |-> FALSE, keys |-> <<>>]
Keys(s) == [def |-> TRUE, keys |-> s]
ExpandedChoices == {Absent, Keys(<<"a">>)}
PinnedChoices == {Absent, Keys(<<"a">>), Keys(<<"b">>)}

\* props.dataSourceComparer: absent, or the consumer's comparator, which
\* puts the rows whose key is in the pinned-key array first.
Comparers == {"undefined", "pinnedFirst"}

\* props.columnDefinitions: 0 is undefined, the others index this table.
ColumnDefinitions(c) ==
    IF c = 1 THEN <<[field |-> "name", type |-> "string"],
                    [field |-> "actions", type |-> "action"],
                    [field |-> "note", type |-> "other"]>>
    ELSE <<>>
ColumnChoices == {0, 1}

\* A callback prop: 0 is an absent callback, 1 the consumer's function.
CallbackIds == {0, 1}

\* window.innerWidth, window.innerHeight
WindowSizes == {<<800, 600>>}

\* The heap slots arrays live in.
Slots == {1, 2, 3, 4}
NoArray == 0

VARIABLES
    props,        \* the props of the last render
    heap,         \* slot -> the array's elements now
    supplied,     \* the elements of props.dataSource when the consumer supplied it
    dataSource,   \* state hook: the slot of the array held
    columns,      \* state hook: the columns built by createColumns
    size,         \* state hook of useWindowSize
    innerExpandedKeys, \* the Table's own state: the keys it toggled itself
    pendSort,     \* the sort effect is pending
    pendCols,     \* the column effect is pending
    dirty,        \* a state update has scheduled a re-render
    rendered,     \* what the last render returned
    received,     \* the last change of props the sort order hangs on
    gesture,      \* the last user gesture
    calls,        \* the callback invocations the last gesture produced
    node,         \* MessageNode: message and tooltip
    ary,          \* the caller's AddrRange accumulator
    op,           \* the last MessageNode operation
    ret           \* what it returned

viewVars == <<props, innerExpandedKeys, heap, supplied, dataSource, columns, size, pendSort, pendCols,
              dirty, rendered, received, gesture, calls>>
nodeVars == <<node, ary, op, ret>>
vars == <<props, innerExpandedKeys, heap, supplied, dataSource, columns, size, pendSort, pendCols,
          dirty, rendered, received, gesture, calls, node, ary, op, ret>>

\* ------------------------------------------------------------ comparators
SetOf(s) == {s[i] : i \in 1..Len(s)}

\* The comparator's result on rows x and y: negative, zero or positive.
\* Without a comparator Array.prototype.sort compares the elements' string
\* conversions, and every row converts to "[object Object]".
Compare(cmp, pins, x, y) ==
    CASE cmp = "pinnedFirst" ->
           IF (x \in SetOf(pins.keys)) = (y \in SetOf(pins.keys)) THEN 0
           ELSE IF x \in SetOf(pins.keys) THEN -1 ELSE 1
      [] OTHER -> 0

\* Array.prototype.sort, which is stable: each element goes behind the
\* elements before it that do not compare greater.
InsertSorted(s, x, cmp, pins) ==
    LET n == Cardinality({i \in 1..Len(s) : Compare(cmp, pins, s[i], x) <= 0})
    IN  SubSeq(s, 1, n) \o <<x>> \o SubSeq(s, n + 1, Len(s))

RECURSIVE SortFrom(_, _, _, _, _)
SortFrom(acc, s, i, cmp, pins) ==
    IF i > Len(s) THEN acc
    ELSE SortFrom(InsertSorted(acc, s[i], cmp, pins), s, i + 1, cmp, pins)

Sort(s, cmp, pins) == SortFrom(<<>>, s, 1, cmp, pins)

\* ----------------------------------------------------------------- heap
Live(p, d, r) == {p.ds, d, r.ds} \ {NoArray}

\* A fresh array takes the lowest slot no reference points to.
Alloc(live) == CHOOSE s \in Slots \ live : \A t \in Slots \ live : s <= t

\* Arrays no reference points to are gone.
Collect(h, live) == [s \in Slots |-> IF s \in live THEN h[s] ELSE <<>>]

\* ------------------------------------------------------------ callbacks
BoolStr(b) == IF b THEN "true" ELSE "false"

\* One invocation of a callback prop; fn = 0 is the absent callback.
OnExpandCall(fn, flag, r) ==
    [cb |-> "onExpand", fn |-> fn, flag |-> BoolStr(flag), cmd |-> "-", value |-> "-", row |-> r]
OnPinCall(fn, flag, r) ==
    [cb |-> "onPin", fn |-> fn, flag |-> BoolStr(flag), cmd |-> "-", value |-> "-", row |-> r]
OnActionCall(fn, c, r) ==
    [cb |-> "onAction", fn |-> fn, flag |-> "-", cmd |-> c.commandId, value |-> c.value, row |-> r]

\* props.x?.onX?.(...): an absent callback is not called.
Invoke(call) == IF call.fn = 0 THEN <<>> ELSE <<call>>

\* expandedRowKeys?.includes(record.id), undefined counting as false.
Includes(opt, r) == opt.def /\ r \in SetOf(opt.keys)

\* ------------------------------------------------------------ renderers
\* The icons of an action cell.  p is the props object the closure holds.
renderActionColumn(p, r) ==
    LET actions ==
            IF Pinned(r) # "undefined"
            THEN IF Pinned(r) = "true"
                 THEN <<[key |-> "unpin", icon |-> "pin", onClick |-> OnPinCall(p.onPin, FALSE, r)]>>
                 ELSE <<[key |-> "pin", icon |-> "pinned", onClick |-> OnPinCall(p.onPin, TRUE, r)]>>
            ELSE <<>>
        cmds == CellCommands(r)
    IN  actions \o [i \in 1..Len(cmds) |->
                      [key |-> cmds[i].commandId, icon |-> cmds[i].icon,
                       onClick |-> OnActionCall(p.onAction, cmds[i], r)]]

\* createColumns: one column per definition.  An action column's render is
\* renderActionColumn of the render pass that built it, so it holds that
\* pass's props (here the two callbacks it reads from them).
createColumns(p) ==
    LET defs == ColumnDefinitions(p.cols)
    IN  [j \in 1..Len(defs) |->
           [title |-> defs[j].field,
            kind |-> IF defs[j].type \in {"string", "action"} THEN defs[j].type ELSE "default",
            width |-> CASE defs[j].type = "string" -> 0
                        [] defs[j].type = "action" -> 64
                        [] OTHER -> 200,
            onPin |-> IF defs[j].type = "action" THEN p.onPin ELSE 0,
            onAction |-> IF defs[j].type = "action" THEN p.onAction ELSE 0]]

\* The cell the Table draws for column col on row r.
RenderCell(col, r) ==
    [kind |-> col.kind,
     icons |-> IF col.kind = "action" THEN renderActionColumn(col, r) ELSE <<>>]

\* A toggle drawn whether or not the row is expandable.
expandIconAlways(expanded, expandable) ==
    IF expanded THEN "codicon-chevron-down" ELSE "codicon-chevron-right"

\* expandable.expandIcon
expandIcon(expanded, expandable) ==
    IF ~expandable THEN "none"
    ELSE IF expanded THEN "codicon-chevron-down" ELSE "codicon-chevron-right"

\* A row click that passes the membership on instead of its negation.
onRowClickNotNegated(p, r) == OnExpandCall(p.onExpand, Includes(p.expanded, r), r)

\* onRow(record).onClick
onRowClick(p, r) == OnExpandCall(p.onExpand, ~Includes(p.expanded, r), r)

\* expandable.onExpand: the flag the Table computed is passed on.
onExpand(p, expanded, r) == OnExpandCall(p.onExpand, expanded, r)

\* The expanded flag the Table hands to expandIcon: membership in
\* expandable.expandedRowKeys when the consumer gives them, else in the
\* keys the Table keeps itself.
IsExpanded(p, inner, r) ==
    IF p.expanded.def THEN r \in SetOf(p.expanded.keys) ELSE r \in inner

\* One body row as drawn.
RenderRow(p, inner, cols, r) ==
    [row |-> r,
     toggle |-> expandIcon(IsExpanded(p, inner, r), HasChildren(r)),
     \* the toggle's onClick is the Table's onExpand(record, e), which calls
     \* expandable.onExpand with the negation of the row's expansion
     toggleClick |-> onExpand(p, ~IsExpanded(p, inner, r), r),
     onClick |-> onRowClick(p, r),
     cells |-> [j \in 1..Len(cols) |-> RenderCell(cols[j], r)]]

\* The empty-state test of the component.
IsEmptyState(h, d) == Len(h[d]) = 0

\* What the component returns: the placeholder, or the Table handed the
\* array in the dataSource state and drawing its rows in `order`.
View(p, inner, d, cols, sz, h, order) ==
    IF IsEmptyState(h, d)
    THEN [kind |-> "placeholder", ds |-> NoArray, rows |-> <<>>, scroll |-> <<0, 0>>]
    ELSE [kind |-> "table", ds |-> d,
          rows |-> [i \in 1..Len(order) |-> RenderRow(p, inner, cols, order[i])],
          scroll |-> <<sz[1], sz[2] - 2>>]

RowOrder(r) == [i \in 1..Len(r.rows) |-> r.rows[i].row]

\* The order the Table draws the root rows in.  The component hands the
\* Table a reference to the array, dataSource={dataSource}, and the Table
\* is a library component: what it does with an array object it has been
\* handed before is not the repository's to decide.  A Table handed an
\* array for the first time reads it.  Handed the array object it already
\* has, it reads it again or keeps the rows it derived from it, so an array
\* sorted in place behind an unchanged reference is drawn in either order.
TableOrders(d, h, prev) ==
    IF prev.kind = "table" /\ prev.ds = d THEN {h[d], RowOrder(prev)} ELSE {h[d]}

\* The drawn row of id r.
DrawnRow(prev, r) == prev.rows[CHOOSE i \in 1..Len(prev.rows) : prev.rows[i].row = r]

\* ------------------------------------------------------------- the view
NoGesture == [kind |-> "none", row |-> "-", key |-> "-", stop |-> FALSE]

\* A dependency list without props.dataSource.
SortDepsChangedPinsOnly(oldDs, newDs, pinsChanged) == pinsChanged

\* The dependency list of the sort effect: [props.dataSource, props.pin?.pinnedRowKeys].
SortDepsChanged(oldDs, newDs, pinsChanged) == oldDs # newDs \/ pinsChanged

\* The dependency list of the column effect: [props.columnDefinitions].
\* fresh: the consumer passes a new definitions array, not the one it passed
\* before; undefined is the same as undefined.
ColumnDepsChanged(oldCols, newCols, fresh) ==
    (oldCols = 0) # (newCols = 0) \/ (newCols # 0 /\ fresh)

\* Object.is on the pinned-key arrays of two props objects.
PinsChanged(old, new, fresh) == old.def # new.def \/ (new.def /\ fresh)

\* (props.dataSource ?? []).sort(props.dataSourceComparer): the array at
\* slot arr is sorted where it is.
SortInPlace(h, arr, p) == [h EXCEPT ![arr] = Sort(h[arr], p.cmp, p.pins)]

\* No effect is pending and no re-render is scheduled.
Quiescent == ~pendSort /\ ~pendCols /\ ~dirty

\* First mount with props p and row list rows: the first render pass and
\* its commit.  The state hooks take their initial values, the layout effect
\* of useWindowSize has set the size, and both passive effects are pending.
Mount(p, rows, sz) ==
    /\ props = p
    /\ heap = [s \in Slots |-> IF s = 1 THEN rows ELSE <<>>]
    /\ supplied = rows
    /\ dataSource = 1
    /\ columns = createColumns(p)
    /\ size = sz
    /\ innerExpandedKeys = {}
    /\ rendered = View(p, innerExpandedKeys, 1, columns, <<0, 0>>, heap, heap[1])
    /\ pendSort = TRUE
    /\ pendCols = TRUE
    /\ dirty = TRUE
    /\ received = "mount"
    /\ gesture = NoGesture
    /\ calls = <<>>

\* The consumers of the sorting side: any row list, comparator, pinned keys
\* and column definitions; no expansion, no callbacks.
InitView ==
    \E rows \in RowLists, hasRows \in BOOLEAN, cmp \in Comparers, pins \in PinnedChoices,
       c \in ColumnChoices, sz \in WindowSizes :
        /\ hasRows \/ rows = <<>>
        /\ Mount([ds |-> IF hasRows THEN 1 ELSE NoArray, cmp |-> cmp, pins |-> pins,
                  cols |-> c, expanded |-> Absent, onExpand |-> 0, onPin |-> 0,
                  onAction |-> 0], rows, sz)

\* The consumers of the gesture side: any row list, column definitions,
\* expansion and callbacks; no comparator, no pinned keys.
InitGestures ==
    \E rows \in RowLists, hasRows \in BOOLEAN, c \in ColumnChoices, e \in ExpandedChoices,
       fe, fp, fa \in CallbackIds, sz \in WindowSizes :
        /\ hasRows \/ rows = <<>>
        /\ Mount([ds |-> IF hasRows THEN 1 ELSE NoArray, cmp |-> "undefined", pins |-> Absent,
                  cols |-> c, expanded |-> e, onExpand |-> fe, onPin |-> fp,
                  onAction |-> fa], rows, sz)

\* The parent renders the component with new props p; h is the heap with
\* any array the consumer has just created and sup the row list as the
\* consumer supplied it.  Pending passive effects are flushed before a new
\* render pass, so none is pending here.  The pass reads the state hooks as
\* they are and marks the effects whose dependencies changed.
Update(p, h, sup, pinsChanged, colsChanged) ==
    /\ ~pendSort /\ ~pendCols
    /\ props' = p
    /\ \E order \in TableOrders(dataSource, h, rendered) :
          rendered' = View(p, innerExpandedKeys, dataSource, columns, size, h, order)
    /\ heap' = Collect(h, Live(p, dataSource, rendered'))
    /\ supplied' = sup
    /\ pendSort' = SortDepsChanged(props.ds, p.ds, pinsChanged)
    /\ pendCols' = colsChanged
    /\ dirty' = FALSE
    /\ received' = IF p.ds # props.ds THEN "rows"
                   ELSE IF pinsChanged THEN "pins"
                   ELSE IF p.cmp # props.cmp THEN "comparer"
                   ELSE received
    /\ gesture' = NoGesture
    /\ calls' = <<>>
    \* the placeholder replaces the Table, whose own state goes with it
    /\ innerExpandedKeys' = IF IsEmptyState(h, dataSource) THEN {} ELSE innerExpandedKeys
    /\ UNCHANGED <<dataSource, columns, size>>

\* The consumer supplies a new row list: a new array, or none.
UpdateRows ==
    \E rows \in RowLists, hasRows \in BOOLEAN :
        /\ hasRows \/ rows = <<>>
        /\ LET slot == Alloc(Live(props, dataSource, rendered))
               p == [props EXCEPT !.ds = IF hasRows THEN slot ELSE NoArray]
               h == IF hasRows THEN [heap EXCEPT ![slot] = rows] ELSE heap
           IN  Update(p, h, rows, FALSE, FALSE)

\* The consumer passes the same row array again with a new pinned-key array.
UpdatePins ==
    \E pins \in PinnedChoices :
        Update([props EXCEPT !.pins = pins], heap, supplied,
               PinsChanged(props.pins, pins, TRUE), FALSE)

\* The consumer passes another comparator, everything else as before.
UpdateComparer ==
    \E cmp \in Comparers :
        /\ cmp # props.cmp
        /\ Update([props EXCEPT !.cmp = cmp], heap, supplied, FALSE, FALSE)

\* The consumer passes a new array of column definitions, or none.
UpdateColumns ==
    \E c \in ColumnChoices :
        Update([props EXCEPT !.cols = c], heap, supplied, FALSE,
               ColumnDepsChanged(props.cols, c, TRUE))

\* The consumer passes the expansion configuration.
UpdateExpansion ==
    \E e \in ExpandedChoices, f \in CallbackIds :
        /\ <<e, f>> # <<props.expanded, props.onExpand>>
        /\ Update([props EXCEPT !.expanded = e, !.onExpand = f], heap, supplied, FALSE, FALSE)

\* The consumer passes the pin and action callbacks.
UpdateCallbacks ==
    \E fp, fa \in CallbackIds :
        /\ <<fp, fa>> # <<props.onPin, props.onAction>>
        /\ Update([props EXCEPT !.onPin = fp, !.onAction = fa], heap, supplied, FALSE, FALSE)

\* The passive effects of the last commit run, in the order of their
\* declaration: the sort effect, then the column effect.
PassiveEffects ==
    /\ pendSort \/ pendCols
    /\ LET arr == IF props.ds = NoArray THEN Alloc(Live(props, dataSource, rendered))
                  ELSE props.ds
           h == IF pendSort THEN SortInPlace(heap, arr, props) ELSE heap
           d == IF pendSort THEN arr ELSE dataSource
       IN  /\ dataSource' = d
           /\ heap' = Collect(h, Live(props, d, rendered))
           /\ columns' = IF pendCols THEN createColumns(props) ELSE columns
           \* setDataSource bails out on the reference it already holds;
           \* setColumns always gets a new array.
           /\ dirty' = (dirty \/ d # dataSource \/ pendCols)
    /\ pendSort' = FALSE
    /\ pendCols' = FALSE
    /\ gesture' = NoGesture
    /\ calls' = <<>>
    /\ UNCHANGED <<innerExpandedKeys, props, supplied, size, rendered, received>>

\* A scheduled re-render: the same props, the state hooks as they are now.
Rerender ==
    /\ dirty /\ ~pendSort /\ ~pendCols
    /\ \E order \in TableOrders(dataSource, heap, rendered) :
          rendered' = View(props, innerExpandedKeys, dataSource, columns, size, heap, order)
    /\ heap' = Collect(heap, Live(props, dataSource, rendered'))
    /\ dirty' = FALSE
    /\ gesture' = NoGesture
    /\ calls' = <<>>
    /\ innerExpandedKeys' = IF IsEmptyState(heap, dataSource) THEN {} ELSE innerExpandedKeys
    /\ UNCHANGED <<props, supplied, dataSource, columns, size, pendSort, pendCols, received>>

\* The window's resize listener: setSize with a new array.
Resize ==
    /\ \E sz \in WindowSizes : size' = sz
    /\ dirty' = TRUE
    /\ gesture' = NoGesture
    /\ calls' = <<>>
    /\ UNCHANGED <<innerExpandedKeys, props, heap, supplied, dataSource, columns, pendSort, pendCols,
                   rendered, received>>

\* ------------------------------------------------------------- gestures
\* A click lands on the row itself: the row's onClick runs.
ClickRow ==
    /\ rendered.kind = "table"
    /\ \E i \in 1..Len(rendered.rows) :
        /\ calls' = Invoke(rendered.rows[i].onClick)
        /\ gesture' = [kind |-> "row", row |-> rendered.rows[i].row, key |-> "-", stop |-> FALSE]
    /\ UNCHANGED <<innerExpandedKeys, props, heap, supplied, dataSource, columns, size, pendSort, pendCols,
                   dirty, rendered, received>>

\* A click lands on an icon of an action cell: the icon's onClick runs, and
\* the click event then bubbles to the row's onClick, unless the consumer's
\* callback stopped the propagation of the event it was handed.
ClickIcon ==
    /\ rendered.kind = "table"
    /\ \E i \in 1..Len(rendered.rows) :
       \E j \in 1..Len(rendered.rows[i].cells) :
       \E k \in 1..Len(rendered.rows[i].cells[j].icons) :
       \E stop \in BOOLEAN :
        LET row == rendered.rows[i]
            icon == row.cells[j].icons[k]
        IN  /\ stop => Invoke(icon.onClick) # <<>>
            /\ calls' = Invoke(icon.onClick) \o (IF stop THEN <<>> ELSE Invoke(row.onClick))
            /\ gesture' = [kind |-> "icon", row |-> row.row, key |-> icon.key, stop |-> stop]
    /\ UNCHANGED <<innerExpandedKeys, props, heap, supplied, dataSource, columns, size, pendSort, pendCols,
                   dirty, rendered, received>>

\* A click lands on the toggle icon of a row.  Its onClick is the Table's
\* onExpand(record, e): the Table toggles the row's key in the keys it
\* keeps itself and calls expandable.onExpand with the new flag; the
\* consumer is handed (expanded, record) and no event, and the handler does
\* not stop the click, which bubbles to the row's onClick.  The Table
\* draws its rows again from its new keys, with the props and columns it
\* was handed last, in one of the orders of TableOrders: the toggles
\* change when the consumer gives no expandedRowKeys.
ClickToggle ==
    /\ rendered.kind = "table"
    /\ \E i \in 1..Len(rendered.rows) :
       \E order \in TableOrders(rendered.ds, heap, rendered) :
        LET row == rendered.rows[i]
            r == row.row
            inner == IF IsExpanded(props, innerExpandedKeys, r)
                     THEN (IF props.expanded.def THEN SetOf(props.expanded.keys)
                           ELSE innerExpandedKeys) \ {r}
                     ELSE (IF props.expanded.def THEN SetOf(props.expanded.keys)
                           ELSE innerExpandedKeys) \cup {r}
        IN  /\ row.toggle # "none"
            /\ calls' = Invoke(row.toggleClick) \o Invoke(row.onClick)
            /\ innerExpandedKeys' = inner
            /\ rendered' = [rendered EXCEPT !.rows =
                   [k \in 1..Len(order) |->
                      LET x == DrawnRow(rendered, order[k])
                      IN  [x EXCEPT
                             !.toggle = expandIcon(IsExpanded(props, inner, x.row),
                                                   HasChildren(x.row)),
                             !.toggleClick = onExpand(props, ~IsExpanded(props, inner, x.row),
                                                      x.row)]]]
            /\ gesture' = [kind |-> "toggle", row |-> r, key |-> "-", stop |-> FALSE]
    /\ UNCHANGED <<props, heap, supplied, dataSource, columns, size, pendSort, pendCols,
                   dirty, received>>

\* ------------------------------------------------------ the message node
Messages == {"", "No SVD file"}

\* The tooltip argument: undefined, null, a string or a MarkdownString.
Tooltips == {[kind |-> "undefined", text |-> ""], [kind |-> "null", text |-> ""],
             [kind |-> "string", text |-> ""], [kind |-> "string", text |-> "tip"],
             [kind |-> "markdown", text |-> ""], [kind |-> "markdown", text |-> "**tip**"]}

\* JavaScript truthiness of a tooltip: an object is truthy, a string unless empty.
Truthy(t) == t.kind = "markdown" \/ (t.kind = "string" /\ t.text # "")

AddrRanges == {[base |-> 0, length |-> 4], [base |-> 8, length |-> 16]}
StatePaths == {"undefined", "", "TIMER0"}
Paths == {<<>>, <<"TIMER0">>, <<"TIMER0", "CR">>}

NoOp == [name |-> "none", self |-> [message |-> "", tooltip |-> [kind |-> "undefined", text |-> ""]]]

getChildren(n) == <<>>

\* A tree item whose tooltip is assigned whatever it is.
getTreeItemAlwaysTooltip(n) ==
    [label |-> n.message, collapsibleState |-> "None", hasTooltip |-> TRUE,
     tooltip |-> n.tooltip]

getTreeItem(n) ==
    LET ti == [label |-> n.message, collapsibleState |-> "None",
               hasTooltip |-> FALSE, tooltip |-> [kind |-> "undefined", text |-> ""]]
    IN  IF Truthy(n.tooltip) THEN [ti EXCEPT !.hasTooltip = TRUE, !.tooltip = n.tooltip]
        ELSE ti

getCopyValue(n) == "undefined"
performUpdate(n) == [resolved |-> FALSE]
updateData(n) == [resolved |-> FALSE]
getPeripheral(n) == "undefined"
\* A collectRanges that contributes a range.
collectRangesAppends(n, a) == Append(a, [base |-> 0, length |-> 0])

\* collectRanges(ary): the accumulator after the call.
collectRanges(n, a) == a
saveState(n, path) == <<>>
findByPath(n, path) == "undefined"

InitNode ==
    /\ \E m \in Messages, t \in Tooltips : node = [message |-> m, tooltip |-> t]
    /\ ary = <<>>
    /\ op = NoOp
    /\ ret = "undefined"

Called(name) == op' = [name |-> name, self |-> node]

GetChildren == Called("getChildren") /\ ret' = getChildren(node) /\ UNCHANGED <<node, ary>>
GetTreeItem == Called("getTreeItem") /\ ret' = getTreeItem(node) /\ UNCHANGED <<node, ary>>
GetCopyValue == Called("getCopyValue") /\ ret' = getCopyValue(node) /\ UNCHANGED <<node, ary>>
PerformUpdate == Called("performUpdate") /\ ret' = performUpdate(node) /\ UNCHANGED <<node, ary>>
UpdateData == Called("updateData") /\ ret' = updateData(node) /\ UNCHANGED <<node, ary>>
GetPeripheral == Called("getPeripheral") /\ ret' = getPeripheral(node) /\ UNCHANGED <<node, ary>>
CollectRanges ==
    /\ op' = [name |-> "collectRanges", self |-> node, before |-> ary]
    /\ ary' = collectRanges(node, ary)
    /\ ret' = "undefined"
    /\ UNCHANGED node
SaveState ==
    \E path \in StatePaths :
        /\ op' = [name |-> "saveState", self |-> node, path |-> path]
        /\ ret' = saveState(node, path)
        /\ UNCHANGED <<node, ary>>
FindByPath ==
    \E path \in Paths :
        /\ op' = [name |-> "findByPath", self |-> node, path |-> path]
        /\ ret' = findByPath(node, path)
        /\ UNCHANGED <<node, ary>>

\* Another node of the tree appends a range to the caller's accumulator.
PushRange ==
    /\ Len(ary) < MaxRanges
    /\ \E r \in AddrRanges : ary' = Append(ary, r)
    /\ op' = NoOp
    /\ ret' = "undefined"
    /\ UNCHANGED node

\* ------------------------------------------------------- specifications
\* The variables of the part a specification leaves alone.
NodeIdle == node = NoOp.self /\ ary = <<>> /\ op = NoOp /\ ret = "undefined"

ViewIdle ==
    /\ props = [ds |-> NoArray, cmp |-> "undefined", pins |-> Absent, cols |-> 0,
                expanded |-> Absent, onExpand |-> 0, onPin |-> 0, onAction |-> 0]
    /\ heap = [s \in Slots |-> <<>>]
    /\ supplied = <<>>
    /\ dataSource = 1
    /\ columns = <<>>
    /\ size = <<0, 0>>
    /\ pendSort = FALSE
    /\ pendCols = FALSE
    /\ dirty = FALSE
    /\ innerExpandedKeys = {}
    /\ rendered = View(props, innerExpandedKeys, 1, columns, size, heap, <<>>)
    /\ received = "mount"
    /\ gesture = NoGesture
    /\ calls = <<>>

\* The view with the consumers of the sorting side.
Init == InitView /\ NodeIdle

Next ==
    \/ UpdateRows /\ UNCHANGED nodeVars
    \/ UpdatePins /\ UNCHANGED nodeVars
    \/ UpdateComparer /\ UNCHANGED nodeVars
    \/ UpdateColumns /\ UNCHANGED nodeVars
    \/ PassiveEffects /\ UNCHANGED nodeVars
    \/ Rerender /\ UNCHANGED nodeVars
    \/ Resize /\ UNCHANGED nodeVars

Spec == Init /\ [][Next]_vars

\* The view with the consumers of the gesture side, and the user.
InitG == InitGestures /\ NodeIdle

NextGestures ==
    \/ UpdateColumns /\ UNCHANGED nodeVars
    \/ UpdateExpansion /\ UNCHANGED nodeVars
    \/ UpdateCallbacks /\ UNCHANGED nodeVars
    \/ PassiveEffects /\ UNCHANGED nodeVars
    \/ Rerender /\ UNCHANGED nodeVars
    \/ ClickRow /\ UNCHANGED nodeVars
    \/ ClickIcon /\ UNCHANGED nodeVars
    \/ ClickToggle /\ UNCHANGED nodeVars

SpecGestures == InitG /\ [][NextGestures]_vars

\* The message node.
InitNodeSpec == InitNode /\ ViewIdle

NextNode ==
    \/ GetChildren /\ UNCHANGED viewVars
    \/ GetTreeItem /\ UNCHANGED viewVars
    \/ GetCopyValue /\ UNCHANGED viewVars
    \/ PerformUpdate /\ UNCHANGED viewVars
    \/ UpdateData /\ UNCHANGED viewVars
    \/ GetPeripheral /\ UNCHANGED viewVars
    \/ CollectRanges /\ UNCHANGED viewVars
    \/ SaveState /\ UNCHANGED viewVars
    \/ FindByPath /\ UNCHANGED viewVars
    \/ PushRange /\ UNCHANGED viewVars

SpecNode == InitNodeSpec /\ [][NextNode]_vars

\* ------------------------------------------------------------- the claims
CommandIds == {"read", "write"}
PinKeys == {"pin", "unpin"}

\* The action cells of a drawn row.
ActionCells(row) == {j \in 1..Len(row.cells) : row.cells[j].kind = "action"}

\* The expand call a click on row r is to produce: flag true exactly when r
\* is not among the expanded keys of the props.
ExpectedExpand(r) ==
    [cb |-> "onExpand", fn |-> props.onExpand,
     flag |-> IF props.expanded.def /\ r \in SetOf(props.expanded.keys) THEN "false" ELSE "true",
     cmd |-> "-", value |-> "-", row |-> r]

\* C1: a click on the icon of command c on row X calls
\* action(event, c, c.value, X), once, and calls nothing else: the expand
\* callback is not invoked.
C1_CommandClickCallsOnlyAction ==
    (gesture.kind = "icon" /\ gesture.key \in CommandIds /\ props.onAction # 0)
        => calls = <<[cb |-> "onAction", fn |-> props.onAction, flag |-> "-",
                      cmd |-> gesture.key, value |-> Command(gesture.key).value,
                      row |-> gesture.row]>>

\* C2: the view never changes the row list the consumer supplied: the array
\* passed as props.dataSource holds the elements it was supplied with, in
\* the order it was supplied with.
C2_InputsNeverMutated ==
    props.ds # NoArray => heap[props.ds] = supplied

\* C3: a click on row r calls expand(flag, r) with flag true exactly when
\* r's key is not in the expanded keys of the latest props (and calls
\* nothing when no expand callback is given).
C3_RowClickTogglesExpansion ==
    gesture.kind = "row"
        => calls = IF props.onExpand = 0 THEN <<>> ELSE <<ExpectedExpand(gesture.row)>>

C3_Witness ==
    /\ gesture.kind = "row" /\ gesture.row = "a"
    /\ props.expanded = Keys(<<"a">>)
    /\ calls = <<[cb |-> "onExpand", fn |-> 1, flag |-> "false", cmd |-> "-",
                  value |-> "-", row |-> "a"]>>

\* out is the stable sort of in under the comparator: the same rows, in the
\* comparator's order, rows that compare equal in their order in in.
Pos(s, x) == CHOOSE i \in 1..Len(s) : s[i] = x
IsOrdered(out, cmp, pins) ==
    \A i, j \in 1..Len(out) : i < j => Compare(cmp, pins, out[i], out[j]) <= 0
IsStableSortOf(out, in, cmp, pins) ==
    /\ Len(out) = Len(in)
    /\ SetOf(out) = SetOf(in)
    /\ IsOrdered(out, cmp, pins)
    /\ \A i, j \in 1..Len(out) :
          (i < j /\ Compare(cmp, pins, out[i], out[j]) = 0) => Pos(in, out[i]) < Pos(in, out[j])

C5_PinChangeResorts ==
    (Quiescent /\ received = "pins" /\ rendered.kind = "table")
        => IsOrdered(RowOrder(rendered), props.cmp, props.pins)

\* C6: once the view has processed an update, it draws the placeholder
\* exactly when the row list supplied is empty or absent, and the table
\* exactly when it is not.
C6_EmptyState ==
    Quiescent => (rendered.kind = "placeholder" <=> (props.ds = NoArray \/ supplied = <<>>))
                 /\ (rendered.kind = "table" <=> (props.ds # NoArray /\ supplied # <<>>))

C6_Witness ==
    /\ Quiescent /\ received = "rows"
    /\ props.ds # NoArray /\ supplied = <<>>
    /\ rendered.kind = "placeholder"

\* C7: the message node answers the same whatever it is asked with and
\* whatever happened before: no children, no copy value, refresh and update
\* resolve to false, no peripheral, the accumulator as it was, no saved
\* state, no node at any path; and the node is as it was before the call.
C7_FixedAnswers ==
    /\ op.name = "getChildren" => ret = <<>>
    /\ op.name = "getCopyValue" => ret = "undefined"
    /\ op.name = "performUpdate" => ret = [resolved |-> FALSE]
    /\ op.name = "updateData" => ret = [resolved |-> FALSE]
    /\ op.name = "getPeripheral" => ret = "undefined"
    /\ op.name = "collectRanges" => ary = op.before
    /\ op.name = "saveState" => ret = <<>>
    /\ op.name = "findByPath" => ret = "undefined"
    /\ op.name # "none" => node = op.self

C7_Witness ==
    op.name = "collectRanges" /\ Len(ary) = MaxRanges /\ node.message # ""

\* C8 as claimed: a row without children has no toggle icon, the icon is
\* drawn only for rows with children, and a click on a row without children
\* does not invoke the expand callback.
C8_LeafClickSilent ==
    /\ \A i \in 1..Len(rendered.rows) :
          rendered.rows[i].toggle # "none" => HasChildren(rendered.rows[i].row)
    /\ (gesture.kind = "row" /\ ~HasChildren(gesture.row)) => calls = <<>>

\* C8 amended: a row without children has no toggle icon and the icon is
\* drawn only (and always) for rows with children; a click on a row without
\* children invokes the expand callback like a click on any other row.
C8_LeafHasNoToggle ==
    /\ \A i \in 1..Len(rendered.rows) :
          rendered.rows[i].toggle # "none" <=> HasChildren(rendered.rows[i].row)
    /\ (gesture.kind = "row" /\ ~HasChildren(gesture.row) /\ props.onExpand # 0)
          => calls = <<ExpectedExpand(gesture.row)>>

C8_Witness ==
    /\ gesture.kind = "row" /\ gesture.row = "b" /\ Len(calls) = 1
    /\ \E i, j \in 1..Len(rendered.rows) :
          /\ rendered.rows[i].row = "b" /\ rendered.rows[i].toggle = "none"
          /\ rendered.rows[j].row = "a" /\ rendered.rows[j].toggle # "none"

\* C9: an action cell has a pin toggle exactly when the row's pinned state
\* is defined, in front of every command icon, and a click on it calls
\* pin(event, flag, row) with flag the negation of the row's pinned state.
C9_PinToggle ==
    /\ \A i \in 1..Len(rendered.rows) : \A j \in ActionCells(rendered.rows[i]) :
          LET icons == rendered.rows[i].cells[j].icons
              r == rendered.rows[i].row
          IN  /\ (Pinned(r) # "undefined") <=> (Len(icons) > 0 /\ icons[1].key \in PinKeys)
              /\ \A k \in 2..Len(icons) : icons[k].key \notin PinKeys
    /\ (gesture.kind = "icon" /\ gesture.key \in PinKeys /\ props.onPin # 0)
          => /\ Len(calls) > 0
             /\ calls[1] = [cb |-> "onPin", fn |-> props.onPin,
                            flag |-> IF Pinned(gesture.row) = "true" THEN "false" ELSE "true",
                            cmd |-> "-", value |-> "-", row |-> gesture.row]

\* C10: the tree item of a message node has the message as its label and
\* the collapsible state None, and has a tooltip field exactly when the node
\* has a tooltip: none for undefined, null and the empty string.
C10_TooltipOmittedWhenAbsent ==
    op.name = "getTreeItem"
        => /\ ret.label = node.message
           /\ ret.collapsibleState = "None"
           /\ ret.hasTooltip <=> ~(\/ node.tooltip.kind \in {"undefined", "null"}
                                   \/ node.tooltip = [kind |-> "string", text |-> ""])
           /\ ret.hasTooltip => ret.tooltip = node.tooltip

C10_Witness ==
    op.name = "getTreeItem" /\ node.tooltip.kind = "null" /\ ~ret.hasTooltip

====
